---- MODULE Spec2Model ----
(***************************************************************************)
(* numbers-c2pa: the manifest builder (create_c2pa_manifest and the        *)
(* functions it calls) and the injection/read adapter (inject,             *)
(* inject_file, read_c2pa, read_c2pa_file) of src/numbers_c2pa/core.py.    *)
(*                                                                         *)
(* Python values are tagged records [t, v]: t is the Python type and v the *)
(* payload.  A str is a sequence of one-character strings, so that         *)
(* startswith, the "in" substring test, Decimal parsing and the formatting *)
(* functions are computed character by character.                          *)
(***************************************************************************)
EXTENDS Integers, Sequences, FiniteSets, TLC

VARIABLES
    bargs,      \* builder: the keyword arguments of create_c2pa_manifest
    bresult,    \* builder: what the call produced (nothing yet, a manifest, a raise)
    pc,         \* adapter: position of the call in progress
    op,         \* adapter: the operation in progress
    args,       \* adapter: its arguments
    manifest,   \* adapter: the caller's manifest dict (passed by reference)
    manifest0,  \* adapter: that dict as it was when the call started
    dirs,       \* adapter: the temporary directories that exist, dir -> files
    mydir,      \* adapter: the directory this call created (0: none)
    ndirs,      \* adapter: directories created so far (names are never reused)
    log,        \* adapter: the steps the call in progress has taken
    proc,       \* adapter: the CompletedProcess of the external tool
    outcome     \* adapter: how the call ended

vars == <<bargs, bresult, pc, op, args, manifest, manifest0, dirs, mydir, ndirs,
          log, proc, outcome>>

builderVars == <<bargs, bresult>>
adapterVars == <<pc, op, args, manifest, manifest0, dirs, mydir, ndirs, log, proc, outcome>>

(***************************************************************************)
(* Python values                                                           *)
(***************************************************************************)
PyNone == [t |-> "NoneType", v |-> <<>>]
PyStr(s) == [t |-> "str", v |-> s]
PyInt(n) == [t |-> "int", v |-> n]
PyBytes(s) == [t |-> "bytes", v |-> s]
PyDict(f) == [t |-> "dict", v |-> f]
PyList(s) == [t |-> "list", v |-> s]
PyDatetime(d) == [t |-> "datetime", v |-> d]
PyRaise(e) == [t |-> "raise", v |-> e]

\* bool(x): None, the empty str, 0 and empty containers are false; a
\* datetime is always true.
Truthy(x) ==
    CASE x.t = "NoneType" -> FALSE
      [] x.t = "str" -> x.v # <<>>
      [] x.t = "bytes" -> x.v # <<>>
      [] x.t = "int" -> x.v # 0
      [] x.t = "list" -> x.v # <<>>
      [] x.t = "dict" -> DOMAIN x.v # {}
      [] OTHER -> TRUE

EmptyDict == [k \in {} |-> PyNone]

\* {**a, **b} and d[k] = x: the right operand wins on a key of both.
DictMerge(a, b) == [k \in DOMAIN a \cup DOMAIN b |-> IF k \in DOMAIN b THEN b[k] ELSE a[k]]
DictSet(d, k, x) == DictMerge(d, (k :> x))

(***************************************************************************)
(* Characters                                                              *)
(***************************************************************************)
DigitChars == <<"0", "1", "2", "3", "4", "5", "6", "7", "8", "9">>
IsDigit(c) == \E i \in 1..10 : DigitChars[i] = c
DigitValue(c) == (CHOOSE i \in 1..10 : DigitChars[i] = c) - 1

RECURSIVE Pow10(_)
Pow10(n) == IF n = 0 THEN 1 ELSE 10 * Pow10(n - 1)

\* str(n) for n >= 0
RECURSIVE NatToStr(_)
NatToStr(n) == IF n < 10 THEN <<DigitChars[n + 1]>>
               ELSE NatToStr(n \div 10) \o <<DigitChars[(n % 10) + 1]>>

\* n printed in at least w digits, zero padded (%02d, %04d)
RECURSIVE ZeroPad(_, _)
ZeroPad(s, w) == IF Len(s) >= w THEN s ELSE ZeroPad(<<"0">> \o s, w)

StartsWith(s, p) == Len(s) >= Len(p) /\ SubSeq(s, 1, Len(p)) = p
Contains(s, sub) == \E i \in 0..(Len(s) - Len(sub)) : SubSeq(s, i + 1, i + Len(sub)) = sub


LowerChars == <<"a", "b", "c", "d", "e", "f", "g", "h", "i", "j", "k", "l", "m", "n", "o", "p", "q", "r", "s", "t", "u", "v", "w", "x", "y", "z">>
UpperChars == <<"A", "B", "C", "D", "E", "F", "G", "H", "I", "J", "K", "L", "M", "N", "O", "P", "Q", "R", "S", "T", "U", "V", "W", "X", "Y", "Z">>
ToUpper(c) == IF \E i \in 1..26 : LowerChars[i] = c
              THEN UpperChars[CHOOSE i \in 1..26 : LowerChars[i] = c] ELSE c
ToLower(c) == IF \E i \in 1..26 : UpperChars[i] = c
              THEN LowerChars[CHOOSE i \in 1..26 : UpperChars[i] = c] ELSE c
LowerStr(s) == [i \in 1..Len(s) |-> ToLower(s[i])]

(***************************************************************************)
(* format_claim_generator                                                  *)
(***************************************************************************)
\* s.replace(old, new) for one-character old and new
ReplaceChar(s, old, new) == [i \in 1..Len(s) |-> IF s[i] = old THEN new ELSE s[i]]

\* s.split(): the maximal runs of non-whitespace characters
RECURSIVE SplitWords(_, _, _)
SplitWords(s, cur, acc) ==
    IF s = <<>> THEN (IF cur = <<>> THEN acc ELSE Append(acc, cur))
    ELSE IF Head(s) \in {" ", "\t", "\n"}
         THEN SplitWords(Tail(s), <<>>, IF cur = <<>> THEN acc ELSE Append(acc, cur))
         ELSE SplitWords(Tail(s), Append(cur, Head(s)), acc)

\* word.capitalize(): first character upper case, the rest lower case
Capitalize(w) == [i \in 1..Len(w) |-> IF i = 1 THEN ToUpper(w[i]) ELSE ToLower(w[i])]

\* sep.join(words)
RECURSIVE Join(_, _)
Join(words, sep) ==
    IF words = <<>> THEN <<>>
    ELSE IF Len(words) = 1 THEN words[1]
    ELSE words[1] \o sep \o Join(Tail(words), sep)

format_claim_generator(name) ==
    LET words == SplitWords(ReplaceChar(ReplaceChar(name, "-", " "), "_", " "), <<>>, <<>>)
    IN Join([i \in 1..Len(words) |-> Capitalize(words[i])], <<"_">>)

(***************************************************************************)
(* datetime: v = <<year, month, day, hour, minute, second>>                *)
(***************************************************************************)
\* strftime('%Y-%m-%dT%H:%M:%SZ')
StrfIso(d) ==
    ZeroPad(NatToStr(d[1]), 4) \o <<"-">> \o ZeroPad(NatToStr(d[2]), 2) \o <<"-">>
    \o ZeroPad(NatToStr(d[3]), 2) \o <<"T">> \o ZeroPad(NatToStr(d[4]), 2) \o <<":">>
    \o ZeroPad(NatToStr(d[5]), 2) \o <<":">> \o ZeroPad(NatToStr(d[6]), 2) \o <<"Z">>

\* strftime('%H:%M:%S')
StrfTime(d) ==
    ZeroPad(NatToStr(d[4]), 2) \o <<":">> \o ZeroPad(NatToStr(d[5]), 2) \o <<":">>
    \o ZeroPad(NatToStr(d[6]), 2)

\* strftime('%Y:%m:%d %H:%M:%S')
StrfExif(d) ==
    ZeroPad(NatToStr(d[1]), 4) \o <<":">> \o ZeroPad(NatToStr(d[2]), 2) \o <<":">>
    \o ZeroPad(NatToStr(d[3]), 2) \o <<" ">> \o StrfTime(d)

\* days from 1970-01-01 to the civil date (proleptic Gregorian calendar)
DaysFromCivil(y, m, d) ==
    LET yy == IF m <= 2 THEN y - 1 ELSE y
        era == yy \div 400
        yoe == yy - era * 400
        mp == IF m > 2 THEN m - 3 ELSE m + 9
        doy == (153 * mp + 2) \div 5 + d - 1
        doe == yoe * 365 + yoe \div 4 - yoe \div 100 + doy
    IN era * 146097 + doe - 719468

\* int(date.timestamp()) of a naive datetime, the local zone being UTC
Timestamp(d) == DaysFromCivil(d[1], d[2], d[3]) * 86400 + d[4] * 3600 + d[5] * 60 + d[6]

\* A variant that hands the datetime object on unformatted.
format_datetime_unformatted(date, to_timestamp) ==
    IF ~Truthy(date) THEN PyNone
    ELSE IF to_timestamp THEN date
    ELSE PyStr(StrfIso(date.v))

format_datetime(date, to_timestamp) ==
    IF ~Truthy(date) THEN PyNone
    ELSE IF to_timestamp THEN PyInt(Timestamp(date.v))
    ELSE PyStr(StrfIso(date.v))

(***************************************************************************)
(* Decimal(value) and format_geolocation                                   *)
(***************************************************************************)
\* A Decimal: kind "num" is sign * coeff / 10^exp; "inf" is a signed
\* infinity; "nan" a quiet NaN; "invalid" stands for the constructor raising
\* decimal.InvalidOperation.  The parser covers [sign] digits [. digits],
\* [sign] Infinity / Inf and NaN, any letter case.
Dec(kind, sign, coeff, exp) == [kind |-> kind, sign |-> sign, coeff |-> coeff, exp |-> exp]

RECURSIVE DigitsToNat(_, _)
DigitsToNat(s, acc) == IF s = <<>> THEN acc
                       ELSE DigitsToNat(Tail(s), 10 * acc + DigitValue(Head(s)))

AllDigits(s) == \A i \in 1..Len(s) : IsDigit(s[i])

\* integer part ip, fraction part fp around the point at position p
DecimalPoint(sign, body, p) ==
    IF AllDigits(SubSeq(body, 1, p - 1)) /\ AllDigits(SubSeq(body, p + 1, Len(body)))
       /\ Len(body) > 1
    THEN Dec("num", sign,
             DigitsToNat(SubSeq(body, 1, p - 1) \o SubSeq(body, p + 1, Len(body)), 0),
             Len(body) - p)
    ELSE Dec("invalid", 1, 0, 0)

\* the unsigned part: digits with at most one point
DecimalNumber(sign, body, dots) ==
    IF dots = {} THEN
        IF body # <<>> /\ AllDigits(body) THEN Dec("num", sign, DigitsToNat(body, 0), 0)
        ELSE Dec("invalid", 1, 0, 0)
    ELSE IF Cardinality(dots) = 1 THEN
        DecimalPoint(sign, body, CHOOSE i \in dots : TRUE)
    ELSE Dec("invalid", 1, 0, 0)

DecimalBody(sign, body) ==
    IF LowerStr(body) \in {<<"i", "n", "f">>, <<"i", "n", "f", "i", "n", "i", "t", "y">>} THEN Dec("inf", sign, 0, 0)
    ELSE IF LowerStr(body) = <<"n", "a", "n">> THEN Dec("nan", sign, 0, 0)
    ELSE DecimalNumber(sign, body, {i \in 1..Len(body) : body[i] = "."})

Decimal(s) ==
    IF s # <<>> /\ Head(s) = "-" THEN DecimalBody(-1, Tail(s))
    ELSE IF s # <<>> /\ Head(s) = "+" THEN DecimalBody(1, Tail(s))
    ELSE DecimalBody(1, s)

\* lo <= d <= hi for integers lo, hi: false for an infinity (one side
\* fails); the caller handles NaN, on which <= raises InvalidOperation.
DecBetween(d, lo, hi) ==
    /\ d.kind = "num"
    /\ lo * Pow10(d.exp) <= d.sign * d.coeff
    /\ d.sign * d.coeff <= hi * Pow10(d.exp)

\* d >= 0
DecNonNegative(d) == IF d.kind = "inf" THEN d.sign = 1 ELSE d.sign * d.coeff >= 0

\* round(num / den) to the nearest integer, ties to even (the rounding of
\* format(Decimal, '.4f'))
RoundHalfEven(num, den) ==
    LET q == num \div den
        r == num % den
    IN IF 2 * r > den \/ (2 * r = den /\ q % 2 = 1) THEN q + 1 ELSE q

\* minutes = (abs(d) - degrees) * 60 rounded to 4 places, in units of
\* 1/10000: frac * 600000 / 10^exp, with the powers of ten cancelled first
Minutes4(frac, exp) ==
    IF exp <= 5 THEN frac * (600000 \div Pow10(exp))
    ELSE RoundHalfEven(frac * 6, Pow10(exp - 5))

\* f'{degrees},{minutes:.4f}{direction}'
GeoString(degrees, m4, direction) ==
    PyStr(NatToStr(degrees) \o <<",">> \o NatToStr(m4 \div 10000) \o <<".">>
          \o ZeroPad(NatToStr(m4 % 10000), 4) \o <<direction>>)

Direction(d, is_latitude) ==
    IF is_latitude THEN (IF DecNonNegative(d) THEN "N" ELSE "S")
    ELSE (IF DecNonNegative(d) THEN "E" ELSE "W")

\* A variant without the range validation of core.py 48-52.
FormatDecimalUnvalidated(d, is_latitude) ==
    IF d.kind \in {"invalid", "nan", "inf"} THEN PyRaise("InvalidOperation")
    ELSE GeoString(d.coeff \div Pow10(d.exp), Minutes4(d.coeff % Pow10(d.exp), d.exp),
                   Direction(d, is_latitude))

\* format_geolocation once d = Decimal(value) is known
FormatDecimal(d, is_latitude) ==
    IF d.kind = "invalid" THEN PyRaise("InvalidOperation")
    ELSE IF d.kind = "nan" THEN PyRaise("InvalidOperation")
    ELSE IF is_latitude /\ ~DecBetween(d, -90, 90) THEN PyNone
    ELSE IF ~is_latitude /\ ~DecBetween(d, -180, 180) THEN PyNone
    ELSE GeoString(d.coeff \div Pow10(d.exp), Minutes4(d.coeff % Pow10(d.exp), d.exp),
                   Direction(d, is_latitude))

\* The result is a Python value: None, a str, or a raise.
format_geolocation(value, is_latitude) ==
    IF ~Truthy(value) THEN PyNone ELSE FormatDecimal(Decimal(value.v), is_latitude)

(***************************************************************************)
(* base64.b64encode(binascii.unhexlify(asset_hex_hash)).decode()           *)
(***************************************************************************)
HexChars == <<"0", "1", "2", "3", "4", "5", "6", "7", "8", "9", "a", "b", "c", "d", "e", "f">>
IsHex(c) == \E i \in 1..16 : HexChars[i] = ToLower(c)
HexValue(c) == (CHOOSE i \in 1..16 : HexChars[i] = ToLower(c)) - 1

\* binascii.unhexlify: an odd length or a non-hex digit raises binascii.Error
UnhexlifyOk(s) == Len(s) % 2 = 0 /\ \A i \in 1..Len(s) : IsHex(s[i])
Unhexlify(s) == [i \in 1..(Len(s) \div 2) |-> 16 * HexValue(s[2 * i - 1]) + HexValue(s[2 * i])]

B64Chars == <<"A", "B", "C", "D", "E", "F", "G", "H", "I", "J", "K", "L", "M", "N", "O", "P", "Q", "R", "S", "T", "U", "V", "W", "X", "Y", "Z", "a", "b", "c", "d", "e", "f", "g", "h", "i", "j", "k", "l", "m", "n", "o", "p", "q", "r", "s", "t", "u", "v", "w", "x", "y", "z", "0", "1", "2", "3", "4", "5", "6", "7", "8", "9", "+", "/">>
B64(n) == B64Chars[n + 1]

RECURSIVE B64Encode(_)
B64Encode(b) ==
    IF b = <<>> THEN <<>>
    ELSE IF Len(b) = 1 THEN
        <<B64(b[1] \div 4), B64((b[1] % 4) * 16), "=", "=">>
    ELSE IF Len(b) = 2 THEN
        <<B64(b[1] \div 4), B64((b[1] % 4) * 16 + b[2] \div 16), B64((b[2] % 16) * 4), "=">>
    ELSE
        <<B64(b[1] \div 4), B64((b[1] % 4) * 16 + b[2] \div 16),
          B64((b[2] % 16) * 4 + b[3] \div 64), B64(b[3] % 64)>>
        \o B64Encode(SubSeq(b, 4, Len(b)))

(***************************************************************************)
(* The manifest builder                                                    *)
(***************************************************************************)
create_assertion_asset_tree(asset_tree_cid, asset_tree_sha256, asset_tree_signature, committer) ==
    IF ~Truthy(asset_tree_cid) \/ ~Truthy(asset_tree_sha256)
       \/ ~Truthy(asset_tree_signature) \/ ~Truthy(committer)
    THEN PyNone
    ELSE PyDict(
        ("label" :> PyStr(<<"i", "o", ".", "n", "u", "m", "b", "e", "r", "s", "p", "r", "o", "t", "o", "c", "o", "l", ".", "a", "s", "s", "e", "t", "-", "t", "r", "e", "e">>))
        @@ ("data" :> PyDict(
              ("assetTreeCid" :> asset_tree_cid)
              @@ ("assetTreeSha256" :> asset_tree_sha256)
              @@ ("assetTreeSignature" :> asset_tree_signature)
              @@ ("committer" :> committer))))

MetadataContext ==
    PyDict(
        ("dc" :> PyStr(<<"h", "t", "t", "p", ":", "/", "/", "p", "u", "r", "l", ".", "o", "r", "g", "/", "d", "c", "/", "e", "l", "e", "m", "e", "n", "t", "s", "/", "1", ".", "1", "/">>))
        @@ ("Iptc4xmpCore" :> PyStr(<<"h", "t", "t", "p", ":", "/", "/", "i", "p", "t", "c", ".", "o", "r", "g", "/", "s", "t", "d", "/", "I", "p", "t", "c", "4", "x", "m", "p", "C", "o", "r", "e", "/", "1", ".", "0", "/", "x", "m", "l", "n", "s", "/">>))
        @@ ("Iptc4xmpExt" :> PyStr(<<"h", "t", "t", "p", ":", "/", "/", "i", "p", "t", "c", ".", "o", "r", "g", "/", "s", "t", "d", "/", "I", "p", "t", "c", "4", "x", "m", "p", "E", "x", "t", "/", "2", "0", "0", "8", "-", "0", "2", "-", "2", "9", "/">>))
        @@ ("exif" :> PyStr(<<"h", "t", "t", "p", ":", "/", "/", "n", "s", ".", "a", "d", "o", "b", "e", ".", "c", "o", "m", "/", "e", "x", "i", "f", "/", "1", ".", "0", "/">>))
        @@ ("exifEX" :> PyStr(<<"h", "t", "t", "p", ":", "/", "/", "c", "i", "p", "a", ".", "j", "p", "/", "e", "x", "i", "f", "/", "2", ".", "3", "2", "/">>))
        @@ ("tiff" :> PyStr(<<"h", "t", "t", "p", ":", "/", "/", "n", "s", ".", "a", "d", "o", "b", "e", ".", "c", "o", "m", "/", "t", "i", "f", "f", "/", "1", ".", "0", "/">>))
        @@ ("xmp" :> PyStr(<<"h", "t", "t", "p", ":", "/", "/", "n", "s", ".", "a", "d", "o", "b", "e", ".", "c", "o", "m", "/", "x", "a", "p", "/", "1", ".", "0", "/">>)))

\* The 'data' mapping of the metadata assertion, or a raise.
MetadataData(nid, date_created, latitude, longitude, date_captured) ==
    LET m0 == ("@context" :> MetadataContext) @@ ("dc:identifier" :> nid)
        m1 == IF date_created.t = "datetime"
              THEN DictSet(m0, "dc:date", PyStr(StrfIso(date_created.v))) ELSE m0
        geo == Truthy(latitude) /\ Truthy(longitude)
        formatted_lat == format_geolocation(latitude, TRUE)
        formatted_lon == format_geolocation(longitude, FALSE)
        m2 == IF geo /\ Truthy(formatted_lat) /\ Truthy(formatted_lon)
              THEN DictSet(DictSet(m1, "exif:GPSLatitude", formatted_lat),
                           "exif:GPSLongitude", formatted_lon)
              ELSE m1
        m3 == IF date_captured.t = "datetime"
              THEN DictSet(DictSet(m2, "exif:GPSTimeStamp", PyStr(StrfTime(date_captured.v))),
                           "exif:DateTimeOriginal", PyStr(StrfExif(date_captured.v)))
              ELSE m2
    IN  IF geo /\ formatted_lat.t = "raise" THEN formatted_lat
        ELSE IF geo /\ formatted_lon.t = "raise" THEN formatted_lon
        ELSE PyDict(m3)

create_assertion_metadata(nid, date_created, latitude, longitude, date_captured) ==
    LET metadata == MetadataData(nid, date_created, latitude, longitude, date_captured)
    IN IF metadata.t = "raise" THEN metadata
       ELSE PyDict(("label" :> PyStr(<<"c", "2", "p", "a", ".", "m", "e", "t", "a", "d", "a", "t", "a">>)) @@ ("data" :> metadata))

IptcNamespace == <<"h", "t", "t", "p", ":", "/", "/", "c", "v", ".", "i", "p", "t", "c", ".", "o", "r", "g", "/", "n", "e", "w", "s", "c", "o", "d", "e", "s", "/", "d", "i", "g", "i", "t", "a", "l", "s", "o", "u", "r", "c", "e", "t", "y", "p", "e", "/">>

\* digital_source_type.startswith(('http://', 'https://'))
IsFullUri(s) == StartsWith(s, <<"h", "t", "t", "p", ":", "/", "/">>) \/ StartsWith(s, <<"h", "t", "t", "p", "s", ":", "/", "/">>)

\* A variant that tests for 'http://' alone.
DigitalSourceTypeUriHttpOnly(digital_source_type) ==
    IF StartsWith(digital_source_type.v, <<"h", "t", "t", "p", ":", "/", "/">>)
    THEN digital_source_type
    ELSE PyStr(IptcNamespace \o digital_source_type.v)

\* core.py 260-266: a full URI is used as it is, a short form gets the
\* IPTC namespace in front
DigitalSourceTypeUri(digital_source_type) ==
    IF IsFullUri(digital_source_type.v)
    THEN digital_source_type
    ELSE PyStr(IptcNamespace \o digital_source_type.v)

create_action_c2pa_opened(asset_hex_hash, digital_source_type, software_agent) ==
    IF ~UnhexlifyOk(asset_hex_hash.v) THEN PyRaise("binascii.Error")
    ELSE
    LET base64_hash == PyStr(B64Encode(Unhexlify(asset_hex_hash.v)))
        a0 == ("action" :> PyStr(<<"c", "2", "p", "a", ".", "o", "p", "e", "n", "e", "d">>))
              @@ ("parameters" :> PyDict(
                    ("ingredients" :> PyList(<<PyDict(
                        ("url" :> PyStr(<<"s", "e", "l", "f", "#", "j", "u", "m", "b", "f", "=", "c", "2", "p", "a", ".", "a", "s", "s", "e", "r", "t", "i", "o", "n", "s", "/", "c", "2", "p", "a", ".", "i", "n", "g", "r", "e", "d", "i", "e", "n", "t", ".", "v", "3">>))
                        @@ ("alg" :> PyStr(<<"s", "h", "a", "2", "5", "6">>))
                        @@ ("hash" :> base64_hash))>>))))
        a1 == IF Truthy(digital_source_type)
              THEN DictSet(a0, "digitalSourceType", DigitalSourceTypeUri(digital_source_type))
              ELSE a0
        a2 == IF Truthy(software_agent)
              THEN DictSet(a1, "softwareAgent", PyDict(("name" :> software_agent)))
              ELSE a1
    IN PyDict(a2)

\* a: the keyword arguments, a record with one field per parameter.
create_c2pa_manifest(a) ==
    LET info0 == ("name" :> a.claim_generator_name)
        claim_generator_info ==
            IF Truthy(a.claim_generator_version)
            THEN DictSet(info0, "version", a.claim_generator_version) ELSE info0
        metadata == create_assertion_metadata(
            a.nid, a.date_created, a.latitude, a.longitude, a.date_captured)
        action == create_action_c2pa_opened(a.asset_hash, a.digital_source_type, a.generated_by)
        integrity ==
            DictMerge(
                ("nid" :> a.nid)
                @@ ("publicKey" :> a.creator_public_key)
                @@ ("mediaHash" :> a.asset_hash)
                @@ ("captureTimestamp" :> format_datetime(a.date_captured, TRUE)),
                IF Truthy(a.creator_name) THEN ("creatorName" :> a.creator_name) ELSE EmptyDict)
        assertions == <<
            metadata,
            PyDict(("label" :> PyStr(<<"c", "2", "p", "a", ".", "a", "c", "t", "i", "o", "n", "s", ".", "v", "2">>))
                   @@ ("data" :> PyDict(("actions" :> PyList(<<action>>))))),
            PyDict(("label" :> PyStr(<<"i", "o", ".", "n", "u", "m", "b", "e", "r", "s", "p", "r", "o", "t", "o", "c", "o", "l", ".", "i", "n", "t", "e", "g", "r", "i", "t", "y">>))
                   @@ ("data" :> PyDict(integrity)))>>
        assertion_asset_tree == create_assertion_asset_tree(
            a.asset_tree_cid, a.asset_tree_sha256, a.asset_tree_signature, a.committer)
    IN  IF metadata.t = "raise" THEN metadata
        ELSE IF action.t = "raise" THEN action
        ELSE PyDict(
            ("alg" :> a.alg)
            @@ ("ta_url" :> a.ta_url)
            @@ ("vendor" :> a.vendor)
            @@ ("claim_generator" :> PyStr(format_claim_generator(a.claim_generator_name.v)))
            @@ ("claim_generator_info" :> PyList(<<PyDict(claim_generator_info)>>))
            @@ ("title" :> a.nid)
            @@ ("assertions" :> PyList(
                  IF Truthy(assertion_asset_tree)
                  THEN Append(assertions, assertion_asset_tree) ELSE assertions)))

(***************************************************************************)
(* json.dump / json.loads.  A JSON text is its sequence of lexemes: the    *)
(* punctuation { } [ ] , : and the literals (a string with its characters, *)
(* a number with its digits, null, true, false).  The name of an object    *)
(* member is the lexeme "key".                                             *)
(***************************************************************************)
Tok(k, s) == [k |-> k, s |-> s]
PyBool(b) == [t |-> "bool", v |-> IF b THEN <<"1">> ELSE <<>>]

IntToStr(n) == IF n < 0 THEN <<"-">> \o NatToStr(-n) ELSE NatToStr(n)
StrToInt(s) == IF Head(s) = "-" THEN -DigitsToNat(Tail(s), 0) ELSE DigitsToNat(s, 0)

\* Whether json.dumps accepts the value: str keys hold by construction;
\* a datetime, a Decimal or bytes raises TypeError.
RECURSIVE JsonSerializable(_)
JsonSerializable(x) ==
    CASE x.t \in {"str", "int", "NoneType", "bool"} -> TRUE
      [] x.t = "list" -> \A i \in 1..Len(x.v) : JsonSerializable(x.v[i])
      [] x.t = "dict" -> \A k \in DOMAIN x.v : JsonSerializable(x.v[k])
      [] OTHER -> FALSE

RECURSIVE JsonDumps(_)
RECURSIVE DumpItems(_)
RECURSIVE DumpMembers(_, _)
JsonDumps(x) ==
    CASE x.t = "str" -> <<Tok("str", x.v)>>
      [] x.t = "int" -> <<Tok("num", IntToStr(x.v))>>
      [] x.t = "NoneType" -> <<Tok("null", <<>>)>>
      [] x.t = "bool" -> <<Tok(IF Truthy(x) THEN "true" ELSE "false", <<>>)>>
      [] x.t = "list" -> <<Tok("[", <<>>)>> \o DumpItems(x.v) \o <<Tok("]", <<>>)>>
      [] x.t = "dict" -> <<Tok("{", <<>>)>> \o DumpMembers(x.v, DOMAIN x.v) \o <<Tok("}", <<>>)>>
DumpItems(s) ==
    IF s = <<>> THEN <<>>
    ELSE IF Len(s) = 1 THEN JsonDumps(s[1])
    ELSE JsonDumps(s[1]) \o <<Tok(",", <<>>)>> \o DumpItems(Tail(s))
DumpMembers(f, keys) ==
    IF keys = {} THEN <<>>
    ELSE LET k == CHOOSE k \in keys : TRUE
             one == <<Tok("key", <<k>>), Tok(":", <<>>)>> \o JsonDumps(f[k])
         IN IF keys = {k} THEN one
            ELSE one \o <<Tok(",", <<>>)>> \o DumpMembers(f, keys \ {k})

\* The parser returns [ok, v, rest]: the value read and the lexemes left.
ParseFail == [ok |-> FALSE, v |-> PyNone, rest |-> <<>>]
ParseOk(v, rest) == [ok |-> TRUE, v |-> v, rest |-> rest]
IsTok(toks, k) == toks # <<>> /\ Head(toks).k = k

RECURSIVE ParseValue(_)
RECURSIVE ParseItems(_, _)
RECURSIVE ParseMembers(_, _)
ParseValue(toks) ==
    IF toks = <<>> THEN ParseFail
    ELSE LET h == Head(toks) IN
      CASE h.k = "str" -> ParseOk(PyStr(h.s), Tail(toks))
        [] h.k = "num" -> ParseOk(PyInt(StrToInt(h.s)), Tail(toks))
        [] h.k = "null" -> ParseOk(PyNone, Tail(toks))
        [] h.k = "true" -> ParseOk(PyBool(TRUE), Tail(toks))
        [] h.k = "false" -> ParseOk(PyBool(FALSE), Tail(toks))
        [] h.k = "[" ->
            IF IsTok(Tail(toks), "]") THEN ParseOk(PyList(<<>>), Tail(Tail(toks)))
            ELSE ParseItems(Tail(toks), <<>>)
        [] h.k = "{" ->
            IF IsTok(Tail(toks), "}") THEN ParseOk(PyDict(EmptyDict), Tail(Tail(toks)))
            ELSE ParseMembers(Tail(toks), EmptyDict)
        [] OTHER -> ParseFail
ParseItems(toks, acc) ==
    LET r == ParseValue(toks) IN
    IF ~r.ok THEN ParseFail
    ELSE IF IsTok(r.rest, ",") THEN ParseItems(Tail(r.rest), Append(acc, r.v))
    ELSE IF IsTok(r.rest, "]") THEN ParseOk(PyList(Append(acc, r.v)), Tail(r.rest))
    ELSE ParseFail
ParseMembers(toks, acc) ==
    IF ~(IsTok(toks, "key") /\ IsTok(Tail(toks), ":")) THEN ParseFail
    ELSE LET r == ParseValue(Tail(Tail(toks))) IN
      IF ~r.ok THEN ParseFail
      ELSE IF IsTok(r.rest, ",")
           THEN ParseMembers(Tail(r.rest), DictSet(acc, Head(toks).s[1], r.v))
      ELSE IF IsTok(r.rest, "}")
           THEN ParseOk(PyDict(DictSet(acc, Head(toks).s[1], r.v)), Tail(r.rest))
      ELSE ParseFail

\* json.loads: the whole text is one value, else JSONDecodeError
JsonLoads(toks) ==
    LET r == ParseValue(toks)
    IN IF r.ok /\ r.rest = <<>> THEN r.v ELSE PyRaise("JSONDecodeError")

\* json.loads(json.dumps(x))
JsonRoundTrip(x) == IF JsonSerializable(x) THEN JsonLoads(JsonDumps(x)) ELSE PyRaise("TypeError")

(***************************************************************************)
(* Inputs of the manifest builder                                          *)
(***************************************************************************)
Latitudes == {PyNone, PyStr(<<>>), PyStr(<<"4", "5", ".", "4", "5">>), PyStr(<<"-", "9", "0">>), PyStr(<<"9", "0", ".", "0", "1">>),
              PyStr(<<"-", "9", "1">>), PyStr(<<"8", "9", ".", "9", "9", "9", "9", "9", "9", "9">>), PyStr(<<"I", "n", "f", "i", "n", "i", "t", "y">>), PyStr(<<"N", "a", "N">>),
              PyStr(<<"a", "b", "c">>)}
Longitudes == {PyNone, PyStr(<<"1", "2", "3", ".", "1", "2", "3">>), PyStr(<<"1", "8", "0">>), PyStr(<<"-", "1", "8", "0", ".", "5">>), PyStr(<<"1", "8", "1">>),
               PyStr(<<"-", "0", ".", "5">>), PyStr(<<"-", "I", "n", "f", "i", "n", "i", "t", "y">>), PyStr(<<"a", "b", "c">>)}
DatesCreated == {PyNone, PyDatetime(<<2024, 2, 29, 23, 59, 59>>)}
DatesCaptured == {PyNone, PyDatetime(<<1970, 1, 1, 0, 0, 0>>),
                  PyDatetime(<<2023, 12, 31, 7, 5, 9>>)}
CreatorNames == {PyNone, PyStr(<<>>), PyStr(<<"T", "e", "s", "t", "e", "r">>)}
Versions == {PyNone, PyStr(<<"1", ".", "0">>)}
DigitalSourceTypes == {PyNone, PyStr(<<>>), PyStr(<<"d", "i", "g", "i", "t", "a", "l", "C", "a", "p", "t", "u", "r", "e">>),
                       PyStr(<<"h", "t", "t", "p", ":", "/", "/", "c", "2", "p", "a", ".", "o", "r", "g", "/", "d", "i", "g", "i", "t", "a", "l", "s", "o", "u", "r", "c", "e", "t", "y", "p", "e", "/", "e", "m", "p", "t", "y">>),
                       PyStr(<<"h", "t", "t", "p", "s", ":", "/", "/", "x">>), PyStr(<<"h", "t", "t", "p", ":", "/", "x">>), PyStr(<<"H", "T", "T", "P", ":", "/", "/", "x">>),
                       PyStr(<<"x", "h", "t", "t", "p", ":", "/", "/", "y">>)}
GeneratedBys == {PyNone, PyStr(<<"S", "t", "a", "b", "l", "e", " ", "D", "i", "f", "f", "u", "s", "i", "o", "n">>)}
TreeValues == {PyNone, PyStr(<<>>), PyStr(<<"x">>)}
AssetHashes == {PyStr(<<"5", "7", "a", "e", "6", "7", "e", "b">>), PyStr(<<"0", "0", "F", "F">>), PyStr(<<"d", "2", "d", "6", "c", "b">>)}
GeneratorNames == {PyStr(<<"N", "u", "m", "b", "e", "r", "s", " ", "P", "r", "o", "t", "o", "c", "o", "l">>), PyStr(<<"m", "y", "-", "a", "p", "p", "_", "x", " ", " ", "t", "w", "o">>)}

\* Every optional argument at its default.
Minimal == [
    nid |-> PyStr(<<"b", "a", "f", "k", "r", "e", "i">>),
    creator_public_key |-> PyStr(<<"0", "x", "2", "F", "B", "f">>),
    asset_hash |-> PyStr(<<"5", "7", "a", "e", "6", "7", "e", "b">>),
    date_created |-> PyNone, latitude |-> PyNone, longitude |-> PyNone,
    date_captured |-> PyNone, creator_name |-> PyNone,
    alg |-> PyStr(<<"e", "s", "2", "5", "6">>),
    ta_url |-> PyStr(<<"h", "t", "t", "p", ":", "/", "/", "t", "i", "m", "e", "s", "t", "a", "m", "p", ".", "d", "i", "g", "i", "c", "e", "r", "t", ".", "c", "o", "m">>),
    vendor |-> PyStr(<<"n", "u", "m", "b", "e", "r", "s", "p", "r", "o", "t", "o", "c", "o", "l">>),
    claim_generator_name |-> PyStr(<<"N", "u", "m", "b", "e", "r", "s", " ", "P", "r", "o", "t", "o", "c", "o", "l">>),
    claim_generator_version |-> PyNone, digital_source_type |-> PyNone,
    generated_by |-> PyNone, asset_tree_cid |-> PyNone, asset_tree_sha256 |-> PyNone,
    asset_tree_signature |-> PyNone, committer |-> PyNone]

\* Every optional argument supplied.
Full == [Minimal EXCEPT
    !.date_created = PyDatetime(<<2024, 2, 29, 23, 59, 59>>),
    !.latitude = PyStr(<<"4", "5", ".", "4", "5">>), !.longitude = PyStr(<<"1", "2", "3", ".", "1", "2", "3">>),
    !.date_captured = PyDatetime(<<2023, 12, 31, 7, 5, 9>>),
    !.creator_name = PyStr(<<"T", "e", "s", "t", "e", "r">>), !.claim_generator_version = PyStr(<<"1", ".", "0">>),
    !.digital_source_type = PyStr(<<"t", "r", "a", "i", "n", "e", "d", "A", "l", "g", "o", "r", "i", "t", "h", "m", "i", "c", "M", "e", "d", "i", "a">>),
    !.generated_by = PyStr(<<"S", "t", "a", "b", "l", "e", " ", "D", "i", "f", "f", "u", "s", "i", "o", "n">>),
    !.asset_tree_cid = PyStr(<<"c", "i", "d">>), !.asset_tree_sha256 = PyStr(<<"s", "h", "a">>),
    !.asset_tree_signature = PyStr(<<"s", "i", "g">>), !.committer = PyStr(<<"0", "x", "C">>)]

\* The argument tuples checked: each group of arguments in full product, on
\* top of the minimal and the full call.
GeoInputs ==
    {[b EXCEPT !.latitude = la, !.longitude = lo, !.date_captured = dc] :
        b \in {Minimal, Full}, la \in Latitudes, lo \in Longitudes, dc \in DatesCaptured}
OptionalInputs ==
    {[b EXCEPT !.date_created = dcr, !.date_captured = dc, !.creator_name = cn,
               !.claim_generator_version = ve, !.digital_source_type = ds,
               !.generated_by = gb] :
        b \in {Minimal, Full, [Full EXCEPT !.latitude = PyStr(<<"-", "9", "1">>)]},
        dcr \in DatesCreated, dc \in DatesCaptured, cn \in CreatorNames,
        ve \in Versions, ds \in DigitalSourceTypes, gb \in GeneratedBys}
TreeInputs ==
    {[b EXCEPT !.asset_tree_cid = c, !.asset_tree_sha256 = s,
               !.asset_tree_signature = g, !.committer = m] :
        b \in {Minimal, Full}, c \in TreeValues, s \in TreeValues, g \in TreeValues,
        m \in TreeValues}
NameInputs ==
    {[b EXCEPT !.asset_hash = h, !.claim_generator_name = n] :
        b \in {Minimal, Full}, h \in AssetHashes, n \in GeneratorNames}
BuilderInputs == GeoInputs \cup OptionalInputs \cup TreeInputs \cup NameInputs

(***************************************************************************)
(* The manifest builder as a state machine: the arguments are drawn by     *)
(* BuilderInit and CreateManifest applies create_c2pa_manifest to them.    *)
(***************************************************************************)
NotCalled == [t |-> "pending", v |-> <<>>]

CreateManifest ==
    /\ bresult = NotCalled
    /\ bresult' = create_c2pa_manifest(bargs)
    /\ UNCHANGED <<bargs, adapterVars>>

(***************************************************************************)
(* The injection / read adapter                                            *)
(***************************************************************************)
MaxDirs == 2

\* mimetypes.guess_extension on the types used here; "" stands for None.
MimeTypes == {"image/png", "image/jpeg", "application/x-nothing", "not a mime type"}
guess_extension(mime) ==
    CASE mime = "image/png" -> ".png"
      [] mime = "image/jpeg" -> ".jpg"
      [] OTHER -> ""

\* A variant without the "if not ext" test.
mimetype_to_ext_unchecked(asset_mime_type) == PyStr(<<guess_extension(asset_mime_type)>>)

\* _mimetype_to_ext: the extension, or a raise of ValueError
mimetype_to_ext(asset_mime_type) ==
    LET ext == guess_extension(asset_mime_type)
    IN IF ext = "" THEN PyRaise("ValueError") ELSE PyStr(<<ext>>)

NoOutcome == [kind |-> "none", exc |-> "", value |-> PyNone]
Returns(x) == [kind |-> "return", exc |-> "", value |-> x]
Raises(e, x) == [kind |-> "raise", exc |-> e, value |-> x]

NoProc == [ran |-> FALSE, returncode |-> 0, stdout |-> <<>>, stderr |-> <<>>]
Completed(rc, out, err) == [ran |-> TRUE, returncode |-> rc, stdout |-> out, stderr |-> err]

\* A step of a call: what was done, on which path or command line, and
\* (for the external tool) the environment variables added.
Event(ev, arg) == [ev |-> ev, arg |-> arg, env |-> <<>>]
RunEvent(cmd, env) == [ev |-> "run", arg |-> cmd, env |-> env]
Events(l) == {l[i].ev : i \in 1..Len(l)}
\* position of the first event ev of the log, 0 when there is none
FirstAt(l, ev) == IF ev \in Events(l) THEN CHOOSE i \in 1..Len(l) :
                      l[i].ev = ev /\ \A j \in 1..(i - 1) : l[j].ev # ev
                  ELSE 0

\* os.path.join(temp_dir, name)
DirPath(d) == <<"/tmp/tmp">> \o NatToStr(d)
PathJoin(dir, name) == dir \o <<"/">> \o name

\* TemporaryDirectory().__enter__: a directory no earlier call had
NoFiles == [n \in {} |-> PyNone]
MakeDir(ds, d) == [x \in DOMAIN ds \cup {d} |-> IF x = d THEN NoFiles ELSE ds[x]]
\* open(path, 'w').write: the file is created or replaced
WriteFile(ds, d, name, content) ==
    [ds EXCEPT ![d] = [n \in DOMAIN ds[d] \cup {name} |->
                          IF n = name THEN content ELSE ds[d][n]]]
\* A variant that leaves the directory behind (tempfile.mkdtemp without cleanup).
RemoveDirLeaking(ds, d) == ds

\* TemporaryDirectory().__exit__: the directory and its files are removed
RemoveDir(ds, d) == [x \in DOMAIN ds \ {d} |-> ds[x]]

\* c2patool_inject: the command line and the environment additions
c2patool_command(file_path, manifest_path, output_path, force_overwrite, parent_path) ==
    <<"c2patool">> \o file_path \o <<"-m">> \o manifest_path \o <<"-o">> \o output_path
    \o (IF Truthy(parent_path) THEN <<"-p">> \o parent_path.v ELSE <<>>)
    \o (IF force_overwrite THEN <<"-f">> ELSE <<>>)
c2patool_env(private_key, sign_cert) ==
    (IF Truthy(private_key) THEN <<"C2PA_PRIVATE_KEY">> ELSE <<>>)
    \o (IF Truthy(sign_cert) THEN <<"C2PA_SIGN_CERT">> ELSE <<>>)

\* A variant with check=False: the exit code is ignored.
c2patool_inject_outcome_unchecked(returncode, stderr) == NoOutcome

\* subprocess.run(check=True, stderr=PIPE): a non-zero exit raises
\* CalledProcessError, re-raised as UnknownError(e.stderr); stderr is bytes.
c2patool_inject_outcome(returncode, stderr) ==
    IF returncode # 0 THEN Raises("UnknownError", PyBytes(stderr)) ELSE NoOutcome

NoClaimFoundText == <<"N", "o", " ", "c", "l", "a", "i", "m", " ", "f", "o", "u", "n", "d">>

\* A variant that matches the stderr text in any letter case.
read_outcome_anycase(returncode, stdout, stderr) ==
    IF returncode # 0
    THEN IF Contains(LowerStr(stderr), LowerStr(NoClaimFoundText))
         THEN Raises("NoClaimFound", PyNone)
         ELSE Raises("UnknownError", PyStr(stderr))
    ELSE LET json_output == JsonLoads(stdout)
         IN IF json_output.t = "raise" THEN Raises(json_output.v, PyNone)
            ELSE Returns(json_output)

\* read_c2pa / read_c2pa_file after subprocess.run(text=True, check=False)
read_outcome(returncode, stdout, stderr) ==
    IF returncode # 0
    THEN IF Contains(stderr, NoClaimFoundText)
         THEN Raises("NoClaimFound", PyNone)
         ELSE Raises("UnknownError", PyStr(stderr))
    ELSE LET json_output == JsonLoads(stdout)
         IN IF json_output.t = "raise" THEN Raises(json_output.v, PyNone)
            ELSE Returns(json_output)
\* whether the call got to json.loads
read_parses(returncode) == returncode = 0

\* Inputs of the adapter
AssetBytes == {PyBytes(<<>>), PyBytes(<<"P", "N", "G">>)}
FilePaths == {<<"a", ".", "p", "n", "g">>, <<"b", ".", "j", "p", "g">>}
Keys == {PyNone, PyStr(<<"P", "E", "M">>)}
ThumbnailUrls == {PyNone, PyStr(<<>>), PyStr(<<"h", "t", "t", "p", ":", "/", "/", "t", "/", "1", ".", "j", "p", "g">>)}
ParentPaths == {PyNone, PyStr(<<"a", ".", "p", "n", "g">>)}
ReturnCodes == {0, 1, 2}
Stderrs == {<<>>, <<"N", "o", " ", "c", "l", "a", "i", "m", " ", "f", "o", "u", "n", "d">>, <<"E", "r", "r", "o", "r", ":", " ", "N", "o", " ", "c", "l", "a", "i", "m", " ", "f", "o", "u", "n", "d", "!">>, <<"n", "o", " ", "c", "l", "a", "i", "m", " ", "f", "o", "u", "n", "d">>,
            <<"N", "o", " ", "c", "l", "a", "i", "m">>, <<"i", "o", " ", "e", "r", "r", "o", "r">>}
Stdouts == {<<>>,
            <<Tok("{", <<>>), Tok("}", <<>>)>>,
            <<Tok("{", <<>>), Tok("key", <<"manifests">>), Tok(":", <<>>),
              Tok("{", <<>>), Tok("}", <<>>), Tok("}", <<>>)>>,
            <<Tok("{", <<>>), Tok("key", <<"manifests">>), Tok(":", <<>>)>>,
            <<Tok("null", <<>>), Tok("null", <<>>)>>}
FetchResults == {"ok", "request_error", "status_error", "stream_error"}

\* The manifests a caller hands over: two built by create_c2pa_manifest and
\* a hand-made one that json.dump rejects.
CallerManifests == {create_c2pa_manifest(Minimal), create_c2pa_manifest(Full),
                    PyDict(("title" :> PyDatetime(<<2024, 2, 29, 23, 59, 59>>)))}

NoArgs == [asset_bytes |-> PyNone, asset_mime_type |-> "", asset_file |-> <<>>,
           c2pa_output_file |-> <<>>, parent_path |-> PyNone, private_key |-> PyNone,
           sign_cert |-> PyNone, force_overwrite |-> TRUE, thumbnail_url |-> PyNone]

ManifestName == <<"manifest.json">>
ThumbnailName == <<"thumbnail.jpg">>
JsonText(x) == [t |-> "text", v |-> JsonDumps(x)]

\* with TemporaryDirectory() ...: the exit runs on return and on raise alike
Finish(o, l) ==
    /\ pc' = "done"
    /\ outcome' = o
    /\ dirs' = IF mydir' = 0 THEN dirs ELSE RemoveDir(dirs, mydir')
    /\ log' = IF mydir' = 0 THEN l ELSE Append(l, Event("cleanup", DirPath(mydir')))

Begin(name, a) ==
    /\ pc = "idle"
    /\ op' = name
    /\ args' = a
    /\ manifest0' = manifest
    /\ UNCHANGED <<bargs, bresult>>

\* core.py 285-295: inject up to the call of c2patool_inject
Inject(asset_bytes, asset_mime_type, private_key, sign_cert, force_overwrite) ==
    /\ Begin("inject", [NoArgs EXCEPT !.asset_bytes = asset_bytes,
                          !.asset_mime_type = asset_mime_type, !.private_key = private_key,
                          !.sign_cert = sign_cert, !.force_overwrite = force_overwrite])
    /\ LET file_ext == mimetype_to_ext(asset_mime_type) IN
       IF file_ext.t = "raise"
       THEN /\ mydir' = 0
            /\ Finish(Raises(file_ext.v, PyNone), <<>>)
            /\ UNCHANGED <<manifest, ndirs, proc>>
       ELSE /\ ndirs < MaxDirs
            /\ ndirs' = ndirs + 1
            /\ mydir' = ndirs + 1
            /\ UNCHANGED <<manifest, proc>>
            /\ LET manifest_file == PathJoin(DirPath(mydir'), ManifestName)
                   asset_file == PathJoin(DirPath(mydir'), <<"asset.">> \o file_ext.v)
               IN IF ~JsonSerializable(manifest)
                  THEN Finish(Raises("TypeError", PyNone),
                              <<Event("mkdtemp", DirPath(mydir')),
                                Event("write_manifest", manifest_file)>>)
                  ELSE /\ pc' = "inject_tool"
                       /\ outcome' = NoOutcome
                       /\ dirs' = WriteFile(WriteFile(MakeDir(dirs, mydir'), mydir',
                                                      ManifestName, JsonText(manifest)),
                                            mydir', <<"asset.">> \o file_ext.v, asset_bytes)
                       /\ log' = <<Event("mkdtemp", DirPath(mydir')),
                                   Event("write_manifest", manifest_file),
                                   Event("write_asset", asset_file)>>

\* core.py 296-307: c2patool_inject, then the output asset is read back.
\* wrote: whether the tool, having exited 0, left the output file.
InjectRunTool(returncode, stderr, wrote) ==
    /\ pc = "inject_tool"
    /\ returncode # 0 => wrote = FALSE
    /\ LET file_ext == mimetype_to_ext(args.asset_mime_type)
           asset_file == PathJoin(DirPath(mydir), <<"asset.">> \o file_ext.v)
           asset_c2pa_file == PathJoin(DirPath(mydir), <<"asset-c2pa.">> \o file_ext.v)
           ran == Append(log, RunEvent(
                     c2patool_command(asset_file, PathJoin(DirPath(mydir), ManifestName),
                                      asset_c2pa_file, args.force_overwrite, PyNone),
                     c2patool_env(args.private_key, args.sign_cert)))
           o == c2patool_inject_outcome(returncode, stderr)
       IN /\ proc' = Completed(returncode, <<>>, stderr)
          /\ mydir' = mydir
          /\ IF o.kind = "raise" THEN Finish(o, ran)
             ELSE IF ~wrote THEN Finish(Raises("FileNotFoundError", PyNone), ran)
             ELSE Finish(Returns(PyBytes(<<"c2pa:">> \o args.asset_bytes.v)),
                         Append(ran, Event("read_output", asset_c2pa_file)))
    /\ UNCHANGED <<bargs, bresult, op, args, manifest, manifest0, ndirs>>

\* core.py 337-341: the manifest is saved to the temporary directory; json.dump
\* raises TypeError on a value it cannot serialize.
SaveManifest(m, ds, l) ==
    LET manifest_file_path == PathJoin(DirPath(mydir'), ManifestName)
        wrote == Append(l, Event("write_manifest", manifest_file_path))
    IN IF ~JsonSerializable(m)
       THEN /\ Finish(Raises("TypeError", PyNone), wrote)
       ELSE /\ pc' = "inject_file_tool"
            /\ outcome' = NoOutcome
            /\ dirs' = WriteFile(ds, mydir', ManifestName, JsonText(m))
            /\ log' = wrote

\* core.py 323-324: inject_file enters its temporary directory
InjectFile(asset_file, c2pa_output_file, parent_path, private_key, sign_cert, force_overwrite, thumbnail_url) ==
    /\ Begin("inject_file", [NoArgs EXCEPT !.asset_file = asset_file,
                               !.c2pa_output_file = c2pa_output_file,
                               !.parent_path = parent_path, !.private_key = private_key,
                               !.sign_cert = sign_cert, !.force_overwrite = force_overwrite,
                               !.thumbnail_url = thumbnail_url])
    /\ ndirs < MaxDirs
    /\ ndirs' = ndirs + 1
    /\ mydir' = ndirs + 1
    /\ UNCHANGED <<manifest, proc>>
    /\ IF Truthy(thumbnail_url)
       THEN /\ pc' = "inject_file_fetch"
            /\ outcome' = NoOutcome
            /\ dirs' = MakeDir(dirs, mydir')
            /\ log' = <<Event("mkdtemp", DirPath(mydir'))>>
       ELSE SaveManifest(manifest, MakeDir(dirs, mydir'), <<Event("mkdtemp", DirPath(mydir'))>>)

\* A variant without response.raise_for_status().
FetchRaisesNoStatusCheck(result) == result \in {"request_error", "stream_error"}

\* requests.get raises on a request error, raise_for_status on an HTTP error
\* status, iter_content on a broken stream (the file is open by then).
FetchRaises(result) == result \in {"request_error", "status_error", "stream_error"}
FetchException(result) ==
    CASE result = "request_error" -> "ConnectionError"
      [] result = "status_error" -> "HTTPError"
      [] result = "stream_error" -> "ChunkedEncodingError"

\* core.py 325-341: the thumbnail is fetched, the manifest is given its
\* 'thumbnail' entry, and the manifest is saved
InjectFileFetchThumbnail(result) ==
    /\ pc = "inject_file_fetch"
    /\ mydir' = mydir
    /\ LET thumbnail_file_path == PathJoin(DirPath(mydir), ThumbnailName)
           got == log \o <<Event("http_get", args.thumbnail_url.v),
                            Event("http_response", <<result>>)>>
           thumb == Append(got, Event("write_thumbnail", thumbnail_file_path))
           m == PyDict(DictSet(manifest.v, "thumbnail", PyDict(
                    ("format" :> PyStr(<<"i", "m", "a", "g", "e", "/", "j", "p", "e", "g">>))
                    @@ ("identifier" :> PyStr(thumbnail_file_path)))))
       IN IF FetchRaises(result)
          THEN /\ manifest' = manifest
               /\ Finish(Raises(FetchException(result), PyNone),
                         IF result = "stream_error" THEN thumb ELSE got)
          ELSE /\ manifest' = m
               /\ SaveManifest(m, WriteFile(dirs, mydir, ThumbnailName, PyBytes(<<"J", "P", "G">>)), thumb)
    /\ UNCHANGED <<bargs, bresult, op, args, manifest0, ndirs, proc>>

\* core.py 343-351: c2patool_inject; inject_file returns None
InjectFileRunTool(returncode, stderr) ==
    /\ pc = "inject_file_tool"
    /\ mydir' = mydir
    /\ LET ran == Append(log, RunEvent(
                     c2patool_command(args.asset_file, PathJoin(DirPath(mydir), ManifestName),
                                      args.c2pa_output_file, args.force_overwrite,
                                      args.parent_path),
                     c2patool_env(args.private_key, args.sign_cert)))
           o == c2patool_inject_outcome(returncode, stderr)
       IN /\ proc' = Completed(returncode, <<>>, stderr)
          /\ Finish(IF o.kind = "raise" THEN o ELSE Returns(PyNone), ran)
    /\ UNCHANGED <<bargs, bresult, op, args, manifest, manifest0, ndirs>>

\* core.py 355-359: read_c2pa stages the asset
ReadC2pa(asset_c2pa_bytes, asset_mime_type) ==
    /\ Begin("read_c2pa", [NoArgs EXCEPT !.asset_bytes = asset_c2pa_bytes,
                             !.asset_mime_type = asset_mime_type])
    /\ UNCHANGED <<manifest, proc>>
    /\ LET file_ext == mimetype_to_ext(asset_mime_type) IN
       IF file_ext.t = "raise"
       THEN /\ mydir' = 0
            /\ ndirs' = ndirs
            /\ Finish(Raises(file_ext.v, PyNone), <<>>)
       ELSE /\ ndirs < MaxDirs
            /\ ndirs' = ndirs + 1
            /\ mydir' = ndirs + 1
            /\ pc' = "read_c2pa_tool"
            /\ outcome' = NoOutcome
            /\ dirs' = WriteFile(MakeDir(dirs, mydir'), mydir',
                                 <<"asset-c2pa.">> \o file_ext.v, asset_c2pa_bytes)
            /\ log' = <<Event("mkdtemp", DirPath(mydir')),
                        Event("write_asset",
                              PathJoin(DirPath(mydir'), <<"asset-c2pa.">> \o file_ext.v))>>

\* the steps of read_c2pa / read_c2pa_file from subprocess.run on
ReadSteps(l, command, returncode) ==
    LET ran == Append(l, RunEvent(command, <<>>))
    IN IF read_parses(returncode) THEN Append(ran, Event("json.loads", <<>>)) ELSE ran

\* core.py 361-371
ReadC2paRunTool(returncode, stdout, stderr) ==
    /\ pc = "read_c2pa_tool"
    /\ mydir' = mydir
    /\ proc' = Completed(returncode, stdout, stderr)
    /\ Finish(read_outcome(returncode, stdout, stderr),
              ReadSteps(log, <<"c2patool">> \o PathJoin(DirPath(mydir),
                          <<"asset-c2pa.">> \o mimetype_to_ext(args.asset_mime_type).v),
                        returncode))
    /\ UNCHANGED <<bargs, bresult, op, args, manifest, manifest0, ndirs>>

\* core.py 374-375: read_c2pa_file works on the caller's file
ReadC2paFile(c2pa_file) ==
    /\ Begin("read_c2pa_file", [NoArgs EXCEPT !.asset_file = c2pa_file])
    /\ pc' = "read_c2pa_file_tool"
    /\ mydir' = 0
    /\ log' = <<>>
    /\ outcome' = NoOutcome
    /\ UNCHANGED <<manifest, dirs, ndirs, proc>>

\* core.py 376-383
ReadC2paFileRunTool(returncode, stdout, stderr) ==
    /\ pc = "read_c2pa_file_tool"
    /\ mydir' = mydir
    /\ proc' = Completed(returncode, stdout, stderr)
    /\ Finish(read_outcome(returncode, stdout, stderr),
              ReadSteps(log, <<"c2patool">> \o args.asset_file, returncode))
    /\ UNCHANGED <<bargs, bresult, op, args, manifest, manifest0, ndirs>>

\* The caller takes the result or the exception; the next call may start.
Return ==
    /\ pc = "done"
    /\ pc' = "idle"
    /\ op' = "none"
    /\ args' = NoArgs
    /\ manifest0' = manifest
    /\ mydir' = 0
    /\ log' = <<>>
    /\ proc' = NoProc
    /\ outcome' = NoOutcome
    /\ UNCHANGED <<bargs, bresult, manifest, dirs, ndirs>>

(***************************************************************************)
(* Specifications                                                          *)
(***************************************************************************)
AdapterIdle ==
    /\ pc = "idle"
    /\ op = "none"
    /\ args = NoArgs
    /\ manifest0 = manifest
    /\ dirs = [d \in {} |-> NoFiles]
    /\ mydir = 0
    /\ ndirs = 0
    /\ log = <<>>
    /\ proc = NoProc
    /\ outcome = NoOutcome

\* The adapter: the caller holds a manifest and calls the four operations.
Init ==
    /\ bargs = Minimal
    /\ bresult = NotCalled
    /\ manifest \in CallerManifests
    /\ AdapterIdle

Next ==
    \/ \E b \in AssetBytes, m \in MimeTypes, k \in Keys, f \in BOOLEAN :
          Inject(b, m, k, k, f)
    \/ \E rc \in ReturnCodes, e \in Stderrs, w \in BOOLEAN : InjectRunTool(rc, e, w)
    \/ \E p \in ParentPaths, k \in Keys, f \in BOOLEAN, u \in ThumbnailUrls :
          InjectFile(<<"a", ".", "p", "n", "g">>, <<"o", "u", "t", ".", "p", "n", "g">>, p, k, k, f, u)
    \/ \E r \in FetchResults : InjectFileFetchThumbnail(r)
    \/ \E rc \in ReturnCodes, e \in Stderrs : InjectFileRunTool(rc, e)
    \/ \E b \in AssetBytes, m \in MimeTypes : ReadC2pa(b, m)
    \/ \E rc \in ReturnCodes, o \in Stdouts, e \in Stderrs : ReadC2paRunTool(rc, o, e)
    \/ \E p \in FilePaths : ReadC2paFile(p)
    \/ \E rc \in ReturnCodes, o \in Stdouts, e \in Stderrs : ReadC2paFileRunTool(rc, o, e)
    \/ Return

Spec == Init /\ [][Next]_vars

\* The builder: create_c2pa_manifest applied to each argument tuple.
BuilderInit ==
    /\ bargs \in BuilderInputs
    /\ bresult = NotCalled
    /\ manifest = PyDict(EmptyDict)
    /\ AdapterIdle

BuilderNext == CreateManifest

SpecBuilder == BuilderInit /\ [][BuilderNext]_vars

(***************************************************************************)
(* Properties                                                              *)
(***************************************************************************)
Called == bresult # NotCalled
Built == bresult.t = "dict"
\* the parts of the manifest built
MetadataOf == bresult.v["assertions"].v[1].v["data"].v
ActionOf == bresult.v["assertions"].v[2].v["data"].v["actions"].v[1].v
IntegrityOf == bresult.v["assertions"].v[3].v["data"].v
Ended == pc = "done"
ToolFailed == proc.ran /\ proc.returncode # 0

\* C1: when the external tool exits non-zero in read_c2pa or read_c2pa_file,
\* the call raises NoClaimFound if stderr contains "No claim found" and
\* otherwise UnknownError carrying exactly the tool's stderr; stdout is not
\* parsed and nothing is returned.
C1_ReadFailureKinds ==
    (Ended /\ op \in {"read_c2pa", "read_c2pa_file"} /\ ToolFailed) =>
        /\ outcome.kind = "raise"
        /\ IF Contains(proc.stderr, NoClaimFoundText)
           THEN outcome.exc = "NoClaimFound"
           ELSE outcome.exc = "UnknownError" /\ outcome.value = PyStr(proc.stderr)
        /\ "json.loads" \notin Events(log)

\* a read whose tool failed with a stderr that has the text in another letter
\* case, and so ended in UnknownError
C1_Witness ==
    /\ Ended /\ op = "read_c2pa" /\ ToolFailed
    /\ proc.stderr = <<"n", "o", " ", "c", "l", "a", "i", "m", " ", "f", "o", "u", "n", "d">>
    /\ outcome.exc = "UnknownError"

IsNumber(x) == Truthy(x) /\ Decimal(x.v).kind \in {"num", "inf"}
InRange(x, bound) == IsNumber(x) /\ DecBetween(Decimal(x.v), -bound, bound)
OutOfRange(x, bound) == IsNumber(x) /\ ~DecBetween(Decimal(x.v), -bound, bound)
NumberOrAbsent(x) == ~Truthy(x) \/ IsNumber(x)
GpsKeys == {"exif:GPSLatitude", "exif:GPSLongitude"}

C3_ValueErrorFirst ==
    (Ended /\ op \in {"inject", "read_c2pa"} /\ guess_extension(args.asset_mime_type) = "") =>
        /\ outcome.kind = "raise"
        /\ outcome.exc = "ValueError"
        /\ log = <<>>
        /\ ~proc.ran
        /\ mydir = 0
        /\ DOMAIN dirs = {}

C3_Witness ==
    /\ Ended /\ op = "inject"
    /\ args.asset_mime_type = "not a mime type"
    /\ outcome.exc = "ValueError"

\* C4: when the external tool exits non-zero during inject or inject_file
\* the call raises UnknownError carrying the tool's stderr, and inject does
\* not read back or return output-asset bytes.
C4_InjectFailure ==
    (Ended /\ op \in {"inject", "inject_file"} /\ ToolFailed) =>
        /\ outcome = Raises("UnknownError", PyBytes(proc.stderr))
        /\ "read_output" \notin Events(log)

C4_Witness ==
    /\ Ended /\ op = "inject" /\ ToolFailed
    /\ proc.stderr = <<"i", "o", " ", "e", "r", "r", "o", "r">>
    /\ outcome.exc = "UnknownError"

NamedExit ==
    \/ outcome.kind = "return"
    \/ outcome.exc \in {"UnknownError", "NoClaimFound", "ConnectionError", "HTTPError",
                        "ChunkedEncodingError", "JSONDecodeError"}

\* C5 as stated: every operation, read_c2pa_file included, creates its own
\* temporary directory and has released it on each exit path named (return,
\* tool failure, thumbnail download failure, JSON parse failure).
C5_EveryOperationHasTempDir ==
    (Ended /\ NamedExit) => (mydir # 0 /\ mydir \notin DOMAIN dirs)

\* C5 amended: inject, inject_file and read_c2pa each create a temporary
\* directory of their own (one no earlier call had), and it is gone on every
\* exit path that follows its creation; read_c2pa_file creates none; no
\* temporary directory outlives a call, and during a call only that call's
\* directory exists.
C5_TempDirReleased ==
    /\ pc \in {"idle", "done"} => DOMAIN dirs = {}
    /\ DOMAIN dirs \subseteq {mydir}
    /\ (Ended /\ op \in {"inject", "inject_file", "read_c2pa"} /\ outcome.exc # "ValueError")
       => /\ mydir # 0
          /\ mydir = ndirs
          /\ log[1] = Event("mkdtemp", DirPath(mydir))
          /\ log[Len(log)] = Event("cleanup", DirPath(mydir))
    /\ op = "read_c2pa_file" => (mydir = 0 /\ {"mkdtemp", "cleanup"} \cap Events(log) = {})

\* inject_file ended by a failed thumbnail download, its directory removed
C5_Witness ==
    /\ Ended /\ op = "inject_file"
    /\ outcome.exc = "HTTPError"
    /\ mydir # 0 /\ mydir \notin DOMAIN dirs

RECURSIVE HasNull(_)
HasNull(x) ==
    CASE x.t = "NoneType" -> TRUE
      [] x.t = "list" -> \E i \in 1..Len(x.v) : HasNull(x.v[i])
      [] x.t = "dict" -> \E k \in DOMAIN x.v : HasNull(x.v[k])
      [] OTHER -> FALSE

\* C6 as stated: a missing optional input is the absence of its key, never
\* a key whose value is null: no mapping of the manifest holds None.
C6_NoNullValue == Built => ~HasNull(bresult)

\* C7 as stated: the caller's manifest is the same after a call of inject or
\* inject_file as it was before.
C7_ManifestUnchanged ==
    (Ended /\ op \in {"inject", "inject_file"}) => manifest = manifest0

RECURSIVE LeafTypes(_)
LeafTypes(x) ==
    CASE x.t = "list" -> UNION {LeafTypes(x.v[i]) : i \in 1..Len(x.v)}
      [] x.t = "dict" -> UNION {LeafTypes(x.v[k]) : k \in DOMAIN x.v}
      [] OTHER -> {x.t}

\* C8: the manifest built round-trips through JSON: every leaf is a str, an
\* int or None, and json.loads(json.dumps(manifest)) equals the manifest.
C8_JsonRoundTrip ==
    Built =>
        /\ LeafTypes(bresult) \subseteq {"str", "int", "NoneType"}
        /\ JsonRoundTrip(bresult) = bresult

\* a manifest with timestamps, coordinates and the asset-tree assertion
C8_Witness ==
    /\ Built
    /\ Len(bresult.v["assertions"].v) = 4
    /\ IntegrityOf["captureTimestamp"].t = "int"
    /\ GpsKeys \subseteq DOMAIN MetadataOf

\* C9: the action has digitalSourceType exactly when a non-empty
\* digital_source_type is given; a value that is a full URI is used
\* unchanged, any other has the IPTC namespace put in front; the value
\* emitted is always a full URI.
C9_DigitalSourceType ==
    Built =>
        /\ ("digitalSourceType" \in DOMAIN ActionOf) <=> Truthy(bargs.digital_source_type)
        /\ "digitalSourceType" \in DOMAIN ActionOf =>
            /\ ActionOf["digitalSourceType"].t = "str"
            /\ IsFullUri(ActionOf["digitalSourceType"].v)
            /\ IF StartsWith(bargs.digital_source_type.v, <<"h", "t", "t", "p", ":", "/", "/">>)
                  \/ StartsWith(bargs.digital_source_type.v, <<"h", "t", "t", "p", "s", ":", "/", "/">>)
               THEN ActionOf["digitalSourceType"] = bargs.digital_source_type
               ELSE ActionOf["digitalSourceType"].v
                        = <<"h", "t", "t", "p", ":", "/", "/", "c", "v", ".", "i", "p", "t", "c", ".", "o", "r", "g", "/", "n", "e", "w", "s", "c", "o", "d", "e", "s", "/", "d", "i", "g", "i", "t", "a", "l", "s", "o", "u", "r", "c", "e", "t", "y", "p", "e", "/">>
                          \o bargs.digital_source_type.v

\* an https URI handed through unchanged
C9_Witness ==
    /\ Built
    /\ bargs.digital_source_type = PyStr(<<"h", "t", "t", "p", "s", ":", "/", "/", "x">>)
    /\ ActionOf["digitalSourceType"] = PyStr(<<"h", "t", "t", "p", "s", ":", "/", "/", "x">>)

InMyDir(i) == StartsWith(log[i].arg, DirPath(mydir) \o <<"/">>)
FetchFailed ==
    \E i \in 1..Len(log) : log[i].ev = "http_response" /\ log[i].arg # <<"ok">>

\* C10: in inject_file with a thumbnail_url the thumbnail is fetched into
\* the call's temporary directory, then the manifest is written to the same
\* directory, then the tool is invoked; when the fetch fails the manifest is
\* not written and the tool is not invoked.
C10_ThumbnailOrder ==
    (op = "inject_file" /\ Truthy(args.thumbnail_url)) =>
        /\ "run" \in Events(log) =>
              /\ "write_manifest" \in Events(log)
              /\ FirstAt(log, "write_manifest") < FirstAt(log, "run")
        /\ "write_manifest" \in Events(log) =>
              /\ "write_thumbnail" \in Events(log)
              /\ FirstAt(log, "http_get") < FirstAt(log, "write_thumbnail")
              /\ FirstAt(log, "write_thumbnail") < FirstAt(log, "write_manifest")
              /\ InMyDir(FirstAt(log, "write_thumbnail"))
              /\ InMyDir(FirstAt(log, "write_manifest"))
        /\ FetchFailed =>
              /\ {"write_manifest", "run"} \cap Events(log) = {}
              /\ ~proc.ran
              /\ Ended /\ outcome.kind = "raise"

\* a call with a thumbnail that got as far as running the tool
C10_Witness ==
    /\ Ended /\ op = "inject_file" /\ Truthy(args.thumbnail_url)
    /\ "run" \in Events(log)
    /\ outcome.kind = "return"

====
